---- MODULE Spec2Model ----
(***************************************************************************)
(* Model of the no-pod container lifecycle orchestrator                    *)
(* (src/api/services/container.service.js) together with the runtime       *)
(* driver (docker.service.js), the proxy control client                    *)
(* (fastpanel.service.js) and the catalog schema (src/unnamed/part_001).   *)
(*                                                                         *)
(* Every request is an async function; each `await` on the catalog, the    *)
(* runtime driver or the proxy client is a point where other requests      *)
(* run.  A request is a process p whose pc[p] is the await it is           *)
(* suspended on; one action is the code between two awaits.  The driver    *)
(* calls themselves are taken as one step each; what the external system   *)
(* answers (success or an error) is chosen by the environment.             *)
(* Catalog statements succeed unless the schema's UNIQUE keys reject them. *)
(***************************************************************************)
EXTENDS Integers, Sequences, FiniteSets, TLC

\* ---- bounds of the model ----
NumPorts == 2
MaxRows == 3
NumProcs == 2
MaxCalls == 3
MaxMinutes == 8

\* ---- program constants ----
BasePort == 14000
OneMinute == 60 * 1000
FiveMinutes == 5 * 60 * 1000

Procs == 1..NumProcs
PortPool == BasePort..(BasePort + NumPorts - 1)
NULL == 0

\* strings are sequences of one-character strings
n8n == <<"n", "8", "n">>
gowa == <<"g", "o", "w", "a">>
BASE_DOMAIN == <<"x">>

\* rows of the services table seeded by the schema
services == {n8n, gowa}

\* the services table after a service was registered as the README tells:
\* INSERT INTO services (name, ...) VALUES ('your-service', ..., '1', '512M')
b_n8n == <<"b", "-", "n", "8", "n">>
registeredServices == services \cup {b_n8n}

\* services.default_cpu and services.default_memory of the rows
default_cpu(s) == IF s = n8n THEN <<"2">> ELSE <<"1">>
default_memory(s) == IF s = n8n THEN <<"1", "0", "2", "4", "M">> ELSE <<"5", "1", "2", "M">>

\* inputs offered by callers; <<>> is the empty string, and for a route or a
\* resource limit also a field that is absent (both are falsy)
NameInputs == {<<"a">>, <<"b">>, <<"a", "_">>, <<>>}
ServiceInputs == {n8n, <<"z">>, <<>>}
IdInputs == 1..(MaxRows + 1)
NoResources == [cpu |-> <<>>, memory |-> <<>>]
RegisteredNameInputs == {<<"a">>, <<"a", "-", "b">>, <<"b">>}
ResourceInputs ==
  {NoResources, [cpu |-> <<"4">>, memory |-> <<>>], [cpu |-> <<>>, memory |-> <<"2", "G">>]}

Letters ==
  {"a","b","c","d","e","f","g","h","i","j","k","l","m",
   "n","o","p","q","r","s","t","u","v","w","x","y","z",
   "A","B","C","D","E","F","G","H","I","J","K","L","M",
   "N","O","P","Q","R","S","T","U","V","W","X","Y","Z"}
Digits == {"0","1","2","3","4","5","6","7","8","9"}

\* the test with the underscore let through, as \w would
ValidInstanceName_underscore(n) ==
  /\ Len(n) > 0
  /\ \A k \in 1..Len(n) : n[k] \in Letters \cup Digits \cup {"-", "_"}

\* /^[a-zA-Z0-9-]+$/.test(instanceName)
ValidInstanceName(n) ==
  /\ Len(n) > 0
  /\ \A k \in 1..Len(n) : n[k] \in Letters \cup Digits \cup {"-"}

\* `${instanceName}-${serviceName}`
containerIdentifier(n, s) == n \o <<"-">> \o s

\* `${subdomain}.${process.env.BASE_DOMAIN}`
Domain(sub) == sub \o <<".">> \o BASE_DOMAIN

Identifiers ==
  {containerIdentifier(n, s) : n \in NameInputs \cup RegisteredNameInputs,
                               s \in ServiceInputs \cup registeredServices}
Domains == {Domain(i) : i \in Identifiers}

VARIABLES
  containers,   \* catalog table containers: row k has id k
  ports,        \* catalog table port_assignments, by port
  rt,           \* runtime: state of the container named by an identifier
  dir,          \* runtime: identifiers whose working directory exists
  sites,        \* proxy control plane: domains that have a site
  dns,          \* proxy control plane: domains that have a DNS record
  req,          \* per request: its await (pc), arguments and locals
  last,         \* history: operation and outcome of the call that ended last
  calls,        \* history: number of calls made so far
  faults,       \* environment: the kinds of failure the external systems may show
  pre,          \* history: the systems' state when the running call began
  fastpanel,    \* proxy client: its cached token and the token's expiry
  now           \* the time (new Date()), in milliseconds

globals == <<containers, ports, rt, dir, sites, dns>>
vars ==
  <<containers, ports, rt, dir, sites, dns, req, last, calls, faults, pre, fastpanel, now>>

Snapshot ==
  [containers |-> containers, ports |-> ports, rt |-> rt, dir |-> dir, sites |-> sites]

\* ---- catalog ----
RowIds == 1..Len(containers)

\* the existing-identifier query with its status test inverted
existing_statusInverted(i) ==
  {k \in RowIds : containers[k].container_identifier = i /\ containers[k].status = "deleted"}

\* SELECT * FROM containers WHERE container_identifier = ? AND status != "deleted"
existing(i) ==
  {k \in RowIds : containers[k].container_identifier = i /\ containers[k].status # "deleted"}

\* SELECT * FROM containers WHERE id = ?
selectById(k) == {j \in RowIds : j = k}

\* SELECT port FROM port_assignments WHERE is_available = TRUE ORDER BY port LIMIT 1
availablePorts == {q \in PortPool : ports[q].is_available}
lowestAvailable == CHOOSE q \in availablePorts : \A r \in availablePorts : q <= r

\* UNIQUE keys of containers: container_identifier, subdomain, port
insertAccepted(row) ==
  \A k \in RowIds :
    /\ containers[k].container_identifier # row.container_identifier
    /\ containers[k].subdomain # row.subdomain
    /\ containers[k].port # row.port

\* ---- environment ----
\* "runtime": a runtime call throws although its target exists
\* "cleanup": a removal step (container.remove, compose down, fs.rm) fails
\* "proxy":   a control-plane request of the proxy client fails
AllFaults == {"runtime", "cleanup", "proxy"}

\* ---- runtime driver (docker.service.js) ----
\* createContainer with a failed cleanup's error thrown in place of the step's
dockerCreateOutcomes_cleanupErrorEscapes(i) ==
  LET up == [rt EXCEPT ![i] = "running"]
      thrownAt == IF "runtime" \in faults
                    THEN {[rt |-> rt, dir |-> dir],
                          [rt |-> rt, dir |-> dir \cup {i}],
                          [rt |-> up, dir |-> dir \cup {i}]}
                    ELSE {}
      cleaned(s) == {[ok |-> FALSE,
                      error |-> IF r = [s.rt EXCEPT ![i] = "none"] /\ d = s.dir \ {i}
                                  THEN "runtime" ELSE "cleanup",
                      rt |-> r, dir |-> d] :
                       r \in {[s.rt EXCEPT ![i] = "none"]}
                             \cup (IF "cleanup" \in faults THEN {s.rt} ELSE {}),
                       d \in {s.dir \ {i}}
                             \cup (IF "cleanup" \in faults THEN {s.dir} ELSE {})}
  IN  {[ok |-> TRUE, error |-> "none", rt |-> up, dir |-> dir \cup {i}]}
      \cup UNION {cleaned(s) : s \in thrownAt}

\* outcomes of dockerService.createContainer for identifier i
dockerCreateOutcomes(i) ==
  LET up == [rt EXCEPT ![i] = "running"]
      success == [ok |-> TRUE, error |-> "none", rt |-> up, dir |-> dir \cup {i}]
      \* the state in which a step of the try block threw
      thrownAt == IF "runtime" \in faults
                    THEN {[rt |-> rt, dir |-> dir],
                          [rt |-> rt, dir |-> dir \cup {i}],
                          [rt |-> up, dir |-> dir \cup {i}]}
                    ELSE {}
      \* cleanupFailedContainer: container.remove, then fs.rm; errors are
      \* swallowed, and the error of the step is thrown again
      cleaned(s) == {[ok |-> FALSE, error |-> "runtime", rt |-> r, dir |-> d] :
                       r \in {[s.rt EXCEPT ![i] = "none"]}
                             \cup (IF "cleanup" \in faults THEN {s.rt} ELSE {}),
                       d \in {s.dir \ {i}}
                             \cup (IF "cleanup" \in faults THEN {s.dir} ELSE {})}
  IN  {success} \cup UNION {cleaned(s) : s \in thrownAt}

\* outcomes of dockerService.deleteContainer for identifier i
dockerDeleteOutcomes(i) ==
  LET \* docker compose down -v in the working directory; its error is swallowed
      afterDown == IF i \in dir
                     THEN {[rt EXCEPT ![i] = "none"]}
                          \cup (IF "cleanup" \in faults THEN {rt} ELSE {})
                     ELSE {rt}
      \* fs.rm(containerDir, {recursive, force}); its error is thrown
      rmThrows == i \in dir /\ "cleanup" \in faults
  IN  {[ok |-> TRUE, rt |-> r, dir |-> dir \ {i}] : r \in afterDown}
      \cup (IF rmThrows THEN {[ok |-> FALSE, rt |-> r, dir |-> dir] : r \in afterDown}
                        ELSE {})

\* outcomes of container.stop / start / restart: the new state, or a throw
dockerSetOutcomes(i, state) ==
  (IF rt[i] = "none" \/ "runtime" \in faults THEN {[ok |-> FALSE, rt |-> rt]} ELSE {})
  \cup (IF rt[i] # "none" THEN {[ok |-> TRUE, rt |-> [rt EXCEPT ![i] = state]]} ELSE {})

\* outcomes of `docker compose down && docker compose up -d` in the working directory
dockerRedeployOutcomes(i) ==
  IF i \notin dir
    THEN {[ok |-> FALSE, rt |-> rt]}
    ELSE {[ok |-> TRUE, rt |-> [rt EXCEPT ![i] = "running"]]}
         \cup (IF "runtime" \in faults
                 THEN {[ok |-> FALSE, rt |-> rt], [ok |-> FALSE, rt |-> [rt EXCEPT ![i] = "none"]]}
                 ELSE {})

\* outcomes of dockerService.backupContainer: the archive is written, or archiver errors
dockerBackupOutcomes(i) == {TRUE} \cup (IF "runtime" \in faults THEN {FALSE} ELSE {})

\* what a call that asked the runtime nothing has as its dockerStatus
NoStatus ==
  [raised |-> FALSE, status |-> "none", running |-> FALSE,
   startedAt |-> "none", finishedAt |-> "none"]

\* getContainerStatus with the inspect error rethrown
dockerStatusOutcomes_rethrows(i) ==
  IF rt[i] # "none"
    THEN {[raised |-> FALSE, status |-> rt[i], running |-> (rt[i] = "running"),
           startedAt |-> "StartedAt", finishedAt |-> "FinishedAt"]}
    ELSE {[raised |-> TRUE, status |-> "none", running |-> FALSE,
           startedAt |-> "none", finishedAt |-> "none"]}

\* outcomes of dockerService.getContainerStatus for identifier i: info.State of
\* the container, or the value of the catch block when inspect() threw
dockerStatusOutcomes(i) ==
  (IF rt[i] # "none"
     THEN {[raised |-> FALSE, status |-> rt[i], running |-> (rt[i] = "running"),
            startedAt |-> "StartedAt", finishedAt |-> "FinishedAt"]}
     ELSE {})
  \cup (IF rt[i] = "none" \/ "runtime" \in faults
          THEN {[raised |-> FALSE, status |-> "not_found", running |-> FALSE,
                 startedAt |-> "undefined", finishedAt |-> "undefined"]}
          ELSE {})

\* outcomes of dockerService.getContainerLogs: rethrows as 'Failed to get logs'
dockerLogsOutcomes(i) ==
  (IF rt[i] # "none" THEN {TRUE} ELSE {})
  \cup (IF rt[i] = "none" \/ "runtime" \in faults THEN {FALSE} ELSE {})

\* ---- proxy control client (fastpanel.service.js) ----
\* addDomain with the 409 answer rethrown instead of reported as 'exists'
addDomain_conflictThrows(D, d) ==
  (IF d \in D THEN {[ok |-> FALSE, status |-> "threw", dns |-> D]}
              ELSE {[ok |-> TRUE, status |-> "created", dns |-> D \cup {d}]})
  \cup (IF "proxy" \in faults THEN {[ok |-> FALSE, status |-> "threw", dns |-> D]} ELSE {})

\* outcomes of fastpanelService.addDomain(d) when the control plane has DNS
\* records for the domains D: POST /api/dns/domains is answered 409 for a
\* domain that has a record, and the catch block turns that into 'exists'
addDomain(D, d) ==
  (IF d \in D THEN {[ok |-> TRUE, status |-> "exists", dns |-> D]}
              ELSE {[ok |-> TRUE, status |-> "created", dns |-> D \cup {d}]})
  \cup (IF "proxy" \in faults THEN {[ok |-> FALSE, status |-> "threw", dns |-> D]} ELSE {})

\* createSite with the site created before the domain is registered
createSiteOutcomes_siteFirst(d) ==
  {[ok |-> TRUE, dns |-> dns \cup {d}, sites |-> sites \cup {d}, ssl |-> "creating",
    issued |-> <<"createSite", "addDomain", "createSSL">>]}
  \cup (IF "proxy" \in faults
          THEN {[ok |-> FALSE, dns |-> dns, sites |-> sites, ssl |-> "none",
                 issued |-> <<"createSite">>],
                [ok |-> FALSE, dns |-> dns, sites |-> sites \cup {d}, ssl |-> "none",
                 issued |-> <<"createSite", "addDomain">>],
                [ok |-> TRUE, dns |-> dns \cup {d}, sites |-> sites \cup {d}, ssl |-> "null",
                 issued |-> <<"createSite", "addDomain", "createSSL">>]}
          ELSE {})

\* outcomes of fastpanelService.createSite for domain d: addDomain, then the
\* site, then the certificate (createSSL returns null instead of throwing);
\* issued: the requests sent to the control plane, in their order
createSiteOutcomes(d) ==
  UNION {IF ~a.ok
           THEN {[ok |-> FALSE, dns |-> a.dns, sites |-> sites, ssl |-> "none",
                  issued |-> <<"addDomain">>]}
           ELSE {[ok |-> TRUE, dns |-> a.dns, sites |-> sites \cup {d}, ssl |-> "creating",
                  issued |-> <<"addDomain", "createSite", "createSSL">>]}
                \cup (IF "proxy" \in faults
                        THEN {[ok |-> FALSE, dns |-> a.dns, sites |-> sites, ssl |-> "none",
                               issued |-> <<"addDomain", "createSite">>],
                              [ok |-> TRUE, dns |-> a.dns, sites |-> sites \cup {d},
                               ssl |-> "null",
                               issued |-> <<"addDomain", "createSite", "createSSL">>]}
                        ELSE {})
         : a \in addDomain(dns, d)}

\* outcomes of fastpanelService.deleteSite(d) when the control plane has the
\* sites S: GET /api/master, find by domain, PUT /api/sites/{id}/delete with
\* remove_dns_domains: false
deleteSite(S, d) ==
  (IF "proxy" \in faults THEN {[status |-> "threw", sites |-> S]} ELSE {})
  \cup (IF d \in S THEN {[status |-> "deleted", sites |-> S \ {d}]}
                    ELSE {[status |-> "not_found", sites |-> S]})

\* outcomes of fastpanelService.deleteSite for domain d
deleteSiteOutcomes(d) == deleteSite(sites, d)

\* ---- requests ----
\* pc: the await the request is suspended on ("idle": no call in progress)
\* op: the operation; name, svc, id: its arguments (id: also result.insertId)
\* ident: containerIdentifier; port: the port getAvailablePort returned
\* siteRes: what the proxy client answered
\* resources: the argument; cpu, memory: the limits chosen
\* containerInfo: what the runtime driver's createContainer returned
NoRequest ==
  [pc |-> "idle", op |-> "none", name |-> <<>>, svc |-> <<>>, id |-> NULL,
   ident |-> <<>>, port |-> NULL, siteRes |-> "none", resources |-> NoResources,
   cpu |-> <<>>, memory |-> <<>>, containerInfo |-> "none"]

CreatePcs == {"c_port", "c_docker", "c_site", "c_rollback", "c_insert", "c_mark"}

InitWith(F) ==
  /\ containers = <<>>
  /\ ports = [q \in PortPool |-> [is_available |-> TRUE, container_id |-> NULL]]
  /\ rt = [i \in Identifiers |-> "none"]
  /\ dir = {}
  /\ sites = {}
  /\ dns = {}
  /\ req = [p \in Procs |-> NoRequest]
  /\ last = [op |-> "none", res |-> "none", siteRes |-> "none", dockerStatus |-> NoStatus]
  /\ calls = 0
  /\ faults = F
  /\ fastpanel = [token |-> NULL, tokenExpire |-> NULL]
  /\ now = 0
  /\ pre = [containers |-> <<>>,
            ports |-> [q \in PortPool |-> [is_available |-> TRUE, container_id |-> NULL]],
            rt |-> [i \in Identifiers |-> "none"], dir |-> {}, sites |-> {}]

Init == InitWith(AllFaults)

\* a call returns or throws: its locals are gone, its outcome is what the caller sees
Finish(p, o, r, sr) ==
  /\ req' = [req EXCEPT ![p] = NoRequest]
  /\ last' = [op |-> o, res |-> r, siteRes |-> sr, dockerStatus |-> NoStatus]

Goto(p, l) ==
  /\ req' = [req EXCEPT ![p].pc = l]
  /\ UNCHANGED last

\* resources?.cpu || services[0].default_cpu with the argument ignored
orDefault_ignoresGiven(x, d) == d

\* x || d
orDefault(x, d) == IF x = <<>> THEN d ELSE x

\* createContainer on a catalog whose services table holds the names in table
createContainerOn(table, p, n, s, r) ==
  /\ req[p].pc = "idle"
  /\ calls < MaxCalls
  /\ calls' = calls + 1
  /\ Len(containers) + Cardinality({q \in Procs : req[q].pc \in CreatePcs}) < MaxRows
  /\ IF ~ValidInstanceName(n)
       THEN Finish(p, "create", "invalid", "none")
       ELSE IF s \notin table
         THEN Finish(p, "create", "service_not_found", "none")
         ELSE IF existing(containerIdentifier(n, s)) # {}
           THEN Finish(p, "create", "exists", "none")
           ELSE /\ req' = [req EXCEPT ![p] =
                       [NoRequest EXCEPT !.pc = "c_port", !.op = "create", !.name = n,
                                         !.svc = s, !.ident = containerIdentifier(n, s),
                                         !.resources = r]]
                /\ UNCHANGED last
  /\ UNCHANGED globals

\* createContainer on the seeded catalog
createContainer(p, n, s, r) == createContainerOn(services, p, n, s, r)

\* const port = await this.getAvailablePort()
getAvailablePort(p) ==
  /\ req[p].pc = "c_port"
  /\ IF availablePorts = {}
       THEN Finish(p, "create", "no_ports", "none")
       ELSE /\ req' = [req EXCEPT ![p].pc = "c_docker", ![p].port = lowestAvailable,
                                  ![p].cpu =
                                    orDefault(req[p].resources.cpu, default_cpu(req[p].svc)),
                                  ![p].memory =
                                    orDefault(req[p].resources.memory,
                                              default_memory(req[p].svc))]
            /\ UNCHANGED last
  /\ UNCHANGED <<globals, calls>>

\* await dockerService.createContainer(...)
createContainer_docker(p) ==
  /\ req[p].pc = "c_docker"
  /\ \E o \in dockerCreateOutcomes(req[p].ident) :
       /\ rt' = o.rt
       /\ dir' = o.dir
       /\ IF o.ok
            THEN /\ req' = [req EXCEPT ![p].pc = "c_site", ![p].containerInfo = "set"]
                 /\ UNCHANGED last
            ELSE Finish(p, "create", o.error, "none")
  /\ UNCHANGED <<calls, containers, ports, sites, dns>>

\* the createSite step with its catch block empty: the call goes on
createContainer_site_swallowsError(p) ==
  /\ req[p].pc = "c_site"
  /\ \E o \in createSiteOutcomes(Domain(req[p].ident)) :
       /\ dns' = o.dns
       /\ sites' = o.sites
       /\ req' = [req EXCEPT ![p].pc = "c_insert",
                             ![p].siteRes = IF ~o.ok THEN "threw"
                                            ELSE IF o.ssl = "null" THEN "created_no_ssl"
                                            ELSE "created"]
       /\ UNCHANGED last
  /\ UNCHANGED <<calls, containers, ports, rt, dir>>

\* fastpanelSite = await fastpanelService.createSite(subdomain, port)
createContainer_site(p) ==
  /\ req[p].pc = "c_site"
  /\ \E o \in createSiteOutcomes(Domain(req[p].ident)) :
       /\ dns' = o.dns
       /\ sites' = o.sites
       /\ req' = [req EXCEPT ![p].pc = IF o.ok THEN "c_insert" ELSE "c_rollback",
                             ![p].siteRes = IF ~o.ok THEN "threw"
                                            ELSE IF o.ssl = "null" THEN "created_no_ssl"
                                            ELSE "created"]
       /\ UNCHANGED last
  /\ UNCHANGED <<calls, containers, ports, rt, dir>>

\* catch: await dockerService.deleteContainer(containerIdentifier); throw
createContainer_rollback(p) ==
  /\ req[p].pc = "c_rollback"
  /\ \E o \in dockerDeleteOutcomes(req[p].ident) :
       /\ rt' = o.rt
       /\ dir' = o.dir
  /\ Finish(p, "create", "proxy", "threw")
  /\ UNCHANGED <<calls, containers, ports, sites, dns>>

\* the row of the INSERT; created_at is CURRENT_TIMESTAMP, read off the number
\* of calls made so far: rows inserted with no call begun in between share it
newRow(p) ==
  [container_identifier |-> req[p].ident, instance_name |-> req[p].name,
   service_name |-> req[p].svc, subdomain |-> req[p].ident, port |-> req[p].port,
   status |-> "running", cpu_limit |-> req[p].cpu, memory_limit |-> req[p].memory,
   created_at |-> calls]

\* the INSERT with its error caught and dropped: the call goes on
createContainer_insert_swallowsError(p) ==
  /\ req[p].pc = "c_insert"
  /\ IF insertAccepted(newRow(p))
       THEN /\ containers' = Append(containers, newRow(p))
            /\ req' = [req EXCEPT ![p].pc = "c_mark", ![p].id = Len(containers) + 1]
       ELSE /\ req' = [req EXCEPT ![p].pc = "c_mark"]
            /\ UNCHANGED containers
  /\ UNCHANGED last
  /\ UNCHANGED <<calls, ports, rt, dir, sites, dns>>

\* INSERT INTO containers ... VALUES (..., 'running', ...)
createContainer_insert(p) ==
  /\ req[p].pc = "c_insert"
  /\ IF insertAccepted(newRow(p))
       THEN /\ containers' = Append(containers, newRow(p))
            /\ req' = [req EXCEPT ![p].pc = "c_mark", ![p].id = Len(containers) + 1]
            /\ UNCHANGED last
       ELSE /\ Finish(p, "create", "db", req[p].siteRes)
            /\ UNCHANGED containers
  /\ UNCHANGED <<calls, ports, rt, dir, sites, dns>>

\* UPDATE port_assignments SET is_available = FALSE, container_id = ? WHERE port = ?
createContainer_mark(p) ==
  /\ req[p].pc = "c_mark"
  /\ ports' = [ports EXCEPT ![req[p].port] =
                 [is_available |-> FALSE, container_id |-> req[p].id]]
  /\ Finish(p, "create", "ok", req[p].siteRes)
  /\ UNCHANGED <<calls, containers, rt, dir, sites, dns>>

\* ---- operations keyed by id ----
IdOps == {"stop", "start", "restart", "redeploy", "backup", "status", "logs", "delete"}

\* the first statements of every id-keyed operation:
\* SELECT * FROM containers WHERE id = ?; throw 'Container not found' when empty
lookup(p, o, k) ==
  /\ req[p].pc = "idle"
  /\ calls < MaxCalls
  /\ calls' = calls + 1
  /\ IF selectById(k) = {}
       THEN Finish(p, o, "not_found", "none")
       ELSE /\ req' = [req EXCEPT ![p] =
                   [NoRequest EXCEPT !.pc = IF o = "delete" THEN "d_docker" ELSE "o_docker",
                                     !.op = o, !.id = k,
                                     !.ident = containers[k].container_identifier]]
            /\ UNCHANGED last
  /\ UNCHANGED globals

\* the runtime call of an operation that then writes a status
runtimeThenWrite(p, o, outcomes) ==
  /\ req[p].pc = "o_docker"
  /\ req[p].op = o
  /\ \E r \in outcomes :
       /\ rt' = r.rt
       /\ IF r.ok THEN Goto(p, "o_write") ELSE Finish(p, o, "runtime", "none")
  /\ UNCHANGED <<calls, containers, ports, dir, sites, dns>>

\* await dockerService.stopContainer(container.container_identifier)
stopContainer_docker(p) ==
  runtimeThenWrite(p, "stop", dockerSetOutcomes(req[p].ident, "stopped"))

\* await dockerService.startContainer(container.container_identifier)
startContainer_docker(p) ==
  runtimeThenWrite(p, "start", dockerSetOutcomes(req[p].ident, "running"))

\* await dockerService.restartContainer(container.container_identifier)
restartContainer_docker(p) ==
  runtimeThenWrite(p, "restart", dockerSetOutcomes(req[p].ident, "running"))

\* the redeploy step with the driver's error dropped: the status is written
redeployContainer_docker_ignoresFailure(p) ==
  /\ req[p].pc = "o_docker"
  /\ req[p].op = "redeploy"
  /\ \E r \in dockerRedeployOutcomes(req[p].ident) :
       /\ rt' = r.rt
       /\ Goto(p, "o_write")
  /\ UNCHANGED <<calls, containers, ports, dir, sites, dns>>

\* await dockerService.redeployContainer(container.container_identifier)
redeployContainer_docker(p) ==
  runtimeThenWrite(p, "redeploy", dockerRedeployOutcomes(req[p].ident))

\* every operation writing 'running'
statusWritten_alwaysRunning(o) == "running"

\* the status each operation writes after its runtime call
statusWritten(o) == IF o = "stop" THEN "stopped" ELSE "running"

\* UPDATE containers SET status = ? WHERE id = ?
updateStatus(p) ==
  /\ req[p].pc = "o_write"
  /\ containers' = [containers EXCEPT ![req[p].id].status = statusWritten(req[p].op)]
  /\ Finish(p, req[p].op, "ok", "none")
  /\ UNCHANGED <<calls, ports, rt, dir, sites, dns>>

\* the runtime call of an operation that writes nothing: it returns or throws
runtimeRead(p, o, outcomes) ==
  /\ req[p].pc = "o_docker"
  /\ req[p].op = o
  /\ \E ok \in outcomes : Finish(p, o, IF ok THEN "ok" ELSE "runtime", "none")
  /\ UNCHANGED <<globals, calls>>

\* await dockerService.backupContainer(container.container_identifier)
backupContainer_docker(p) == runtimeRead(p, "backup", dockerBackupOutcomes(req[p].ident))

\* await dockerService.getContainerStatus(container.container_identifier)
\* it returns {...container, dockerStatus}, or throws what the driver raised
getContainerStatus_docker(p) ==
  /\ req[p].pc = "o_docker"
  /\ req[p].op = "status"
  /\ \E o \in dockerStatusOutcomes(req[p].ident) :
       /\ req' = [req EXCEPT ![p] = NoRequest]
       /\ last' = [op |-> "status", res |-> IF o.raised THEN "runtime" ELSE "ok",
                   siteRes |-> "none", dockerStatus |-> o]
  /\ UNCHANGED <<globals, calls>>

\* await dockerService.getContainerLogs(container.container_identifier, lines)
getContainerLogs_docker(p) == runtimeRead(p, "logs", dockerLogsOutcomes(req[p].ident))


\* the teardown step with the driver's error caught and dropped
deleteContainer_docker_swallowsError(p) ==
  /\ req[p].pc = "d_docker"
  /\ \E o \in dockerDeleteOutcomes(req[p].ident) :
       /\ rt' = o.rt
       /\ dir' = o.dir
       /\ Goto(p, "d_site")
  /\ UNCHANGED <<calls, containers, ports, sites, dns>>

\* await dockerService.deleteContainer(container.container_identifier)
deleteContainer_docker(p) ==
  /\ req[p].pc = "d_docker"
  /\ \E o \in dockerDeleteOutcomes(req[p].ident) :
       /\ rt' = o.rt
       /\ dir' = o.dir
       /\ IF o.ok THEN Goto(p, "d_site") ELSE Finish(p, "delete", "runtime", "none")
  /\ UNCHANGED <<calls, containers, ports, sites, dns>>

\* try { await fastpanelService.deleteSite(domain) } catch { log }
deleteContainer_site(p) ==
  /\ req[p].pc = "d_site"
  /\ \E o \in deleteSiteOutcomes(Domain(req[p].ident)) :
       /\ sites' = o.sites
       /\ req' = [req EXCEPT ![p].pc = "d_free", ![p].siteRes = o.status]
  /\ UNCHANGED last
  /\ UNCHANGED <<calls, containers, ports, rt, dir, dns>>

\* UPDATE port_assignments SET is_available = TRUE, container_id = NULL WHERE container_id = ?
deleteContainer_free(p) ==
  /\ req[p].pc = "d_free"
  /\ ports' = [q \in PortPool |->
                 IF ports[q].container_id = req[p].id
                   THEN [is_available |-> TRUE, container_id |-> NULL]
                   ELSE ports[q]]
  /\ Goto(p, "d_mark")
  /\ UNCHANGED <<calls, containers, rt, dir, sites, dns>>

\* UPDATE containers SET status = "deleted" WHERE id = ?
deleteContainer_mark(p) ==
  /\ req[p].pc = "d_mark"
  /\ containers' = [containers EXCEPT ![req[p].id].status = "deleted"]
  /\ Finish(p, "delete", "ok", req[p].siteRes)
  /\ UNCHANGED <<calls, ports, rt, dir, sites, dns>>

\* ---- listing ----
\* the filters a caller gives; <<>> and "" are a filter that is absent or empty
FilterInputs ==
  [instanceName : {<<>>, <<"a">>}, service : {<<>>, n8n, gowa},
   status : {"", "running", "stopped", "deleted"}]

\* the query without its WHERE status != "deleted"
matching_includesDeleted(f) ==
  {k \in RowIds :
     /\ f.instanceName # <<>> => containers[k].instance_name = f.instanceName
     /\ f.service # <<>> => containers[k].service_name = f.service
     /\ f.status # "" => containers[k].status = f.status}

\* the rows of SELECT * FROM containers WHERE status != "deleted" [AND ...]
matching(f) ==
  {k \in RowIds :
     /\ containers[k].status # "deleted"
     /\ f.instanceName # <<>> => containers[k].instance_name = f.instanceName
     /\ f.service # <<>> => containers[k].service_name = f.service
     /\ f.status # "" => containers[k].status = f.status}

\* the sequences that list every element of S once
Orderings(S) ==
  {L \in [1..Cardinality(S) -> S] : \A i, j \in 1..Cardinality(S) : i # j => L[i] # L[j]}

\* the results listContainers(f) can return, as sequences of row ids:
\* ... ORDER BY created_at DESC leaves the order of equal timestamps open
listContainers(f) ==
  {L \in Orderings(matching(f)) :
     \A i, j \in 1..Len(L) :
       i < j => containers[L[i]].created_at >= containers[L[j]].created_at}

\* ---- HTTP layer (routes) ----
\* router.post('/'): 400 when instanceName or service is missing, else the
\* service call
postContainers(p, n, s, r) ==
  IF n = <<>> \/ s = <<>>
    THEN /\ req[p].pc = "idle"
         /\ calls < MaxCalls
         /\ calls' = calls + 1
         /\ Finish(p, "create", "missing", "none")
         /\ UNCHANGED globals
    ELSE createContainer(p, n, s, r)

\* the status code the route of operation o answers when the call ended with r
httpStatus(o, r) ==
  IF o = "create"
    THEN (IF r = "missing" THEN 400 ELSE IF r = "ok" THEN 201 ELSE 500)
    ELSE IF r = "ok" THEN 200
    ELSE IF o = "status" THEN 404
    ELSE 500

\* ---- session of the proxy client ----
\* what the control plane puts between now and response.data.expire
TokenLifetimes == {6 * OneMinute - 1, 6 * OneMinute, 6 * OneMinute + 1}

\* outcomes of login(): the token (numbered by its time of issue) and its
\* expiry replace the cached ones; when the request fails they stay
loginOutcomes ==
  {[ok |-> TRUE, token |-> now + 1, tokenExpire |-> now + l] : l \in TokenLifetimes}
  \cup (IF "proxy" \in faults
          THEN {[ok |-> FALSE, token |-> fastpanel.token,
                 tokenExpire |-> fastpanel.tokenExpire]}
          ELSE {})

getToken ==
  /\ IF /\ fastpanel.token # NULL
        /\ fastpanel.tokenExpire # NULL
        /\ fastpanel.tokenExpire - now > FiveMinutes
       THEN /\ UNCHANGED fastpanel
            /\ last' = [op |-> "getToken", res |-> "cached", siteRes |-> "none",
                        dockerStatus |-> NoStatus]
       ELSE \E o \in loginOutcomes :
              /\ fastpanel' = [token |-> o.token, tokenExpire |-> o.tokenExpire]
              /\ last' = [op |-> "getToken",
                          res |-> IF o.ok THEN "login" ELSE "login_failed",
                          siteRes |-> "none", dockerStatus |-> NoStatus]
  /\ UNCHANGED <<globals, req, calls, faults, pre, now>>

\* a minute passes
Tick ==
  /\ now < MaxMinutes * OneMinute
  /\ now' = now + OneMinute
  /\ UNCHANGED <<globals, req, last, calls, faults, pre, fastpanel>>

\* ---- specifications ----
\* the steps that need no failure of an external system
Calm(p) ==
  \/ \E n \in NameInputs, s \in ServiceInputs : createContainer(p, n, s, NoResources)
  \/ \E n \in NameInputs, s \in ServiceInputs : postContainers(p, n, s, NoResources)
  \/ getAvailablePort(p)
  \/ createContainer_docker(p)
  \/ createContainer_site(p)
  \/ createContainer_insert(p)
  \/ createContainer_mark(p)
  \/ \E o \in IdOps, k \in IdInputs : lookup(p, o, k)
  \/ stopContainer_docker(p)
  \/ startContainer_docker(p)
  \/ restartContainer_docker(p)
  \/ redeployContainer_docker(p)
  \/ updateStatus(p)
  \/ backupContainer_docker(p)
  \/ getContainerStatus_docker(p)
  \/ getContainerLogs_docker(p)
  \/ deleteContainer_docker(p)
  \/ deleteContainer_site(p)
  \/ deleteContainer_free(p)
  \/ deleteContainer_mark(p)

Step(p) == Calm(p) \/ createContainer_rollback(p)

Quiescent == \A p \in Procs : req[p].pc = "idle"

\* requests of any number of callers, interleaved at their awaits, with
\* external systems that may fail in every way
Next == \E p \in Procs : Step(p) /\ UNCHANGED <<faults, pre, fastpanel, now>>

Spec == Init /\ [][Next]_vars

\* the same, with only the proxy control plane failing
ProxyFaultSpec == InitWith({"proxy"}) /\ [][Next]_vars

\* the same, with external systems that never fail
NoFaultNext == \E p \in Procs : Calm(p) /\ UNCHANGED <<faults, pre, fastpanel, now>>

NoFaultSpec == InitWith({}) /\ [][NoFaultNext]_vars

\* one request at a time, with external systems that never fail;
\* pre records the systems' state when the request began
SeqNoFaultNext ==
  \E p \in Procs :
    /\ \A q \in Procs \ {p} : req[q].pc = "idle"
    /\ Calm(p)
    /\ pre' = IF req[p].pc = "idle" THEN Snapshot ELSE pre
    /\ UNCHANGED <<faults, fastpanel, now>>

SeqNoFaultSpec == InitWith({}) /\ [][SeqNoFaultNext]_vars

\* one request at a time, with external systems that may fail
SeqNext ==
  \E p \in Procs :
    /\ \A q \in Procs \ {p} : req[q].pc = "idle"
    /\ Step(p)
    /\ pre' = IF req[p].pc = "idle" THEN Snapshot ELSE pre
    /\ UNCHANGED <<faults, fastpanel, now>>

\* one request at a time, with only the proxy control plane failing
SeqProxyFaultSpec == InitWith({"proxy"}) /\ [][SeqNext]_vars

\* one request at a time, with external systems that fail in some of the
\* ways, or in none
SeqFaultsSpec == (\E F \in SUBSET AllFaults : InitWith(F)) /\ [][SeqNext]_vars

\* requests of any number of callers, with only the runtime failing
RuntimeFaultSpec == InitWith({"runtime"}) /\ [][Next]_vars

\* requests of any number of callers, with only removals failing
CleanupFaultSpec == InitWith({"cleanup"}) /\ [][NoFaultNext]_vars

\* calls for every seeded service, with and without resources
Wide(p) ==
  \E n \in NameInputs, s \in services, r \in ResourceInputs : createContainer(p, n, s, r)

\* one request at a time on every seeded service, with external systems
\* that never fail
WideNext ==
  \E p \in Procs :
    /\ \A q \in Procs \ {p} : req[q].pc = "idle"
    /\ Calm(p) \/ Wide(p)
    /\ pre' = IF req[p].pc = "idle" THEN Snapshot ELSE pre
    /\ UNCHANGED <<faults, fastpanel, now>>

WideSpec == InitWith({}) /\ [][WideNext]_vars

\* calls for every service of a catalog with a registered service
Registered(p) ==
  \E n \in RegisteredNameInputs, s \in registeredServices :
    createContainerOn(registeredServices, p, n, s, NoResources)

\* one request at a time on a catalog with a registered service, with
\* external systems that never fail
RegisteredNext ==
  \E p \in Procs :
    /\ \A q \in Procs \ {p} : req[q].pc = "idle"
    /\ \/ Registered(p)
       \/ getAvailablePort(p)
       \/ createContainer_docker(p)
       \/ createContainer_site(p)
       \/ createContainer_insert(p)
       \/ createContainer_mark(p)
       \/ \E k \in IdInputs : lookup(p, "delete", k)
       \/ deleteContainer_docker(p)
       \/ deleteContainer_site(p)
       \/ deleteContainer_free(p)
       \/ deleteContainer_mark(p)
    /\ pre' = IF req[p].pc = "idle" THEN Snapshot ELSE pre
    /\ UNCHANGED <<faults, fastpanel, now>>

RegisteredSpec == InitWith({}) /\ [][RegisteredNext]_vars

\* the steps of a request that wait for the catalog only
CatalogStep(p) ==
  \/ getAvailablePort(p)
  \/ createContainer_insert(p)
  \/ createContainer_mark(p)
  \/ updateStatus(p)
  \/ deleteContainer_free(p)
  \/ deleteContainer_mark(p)

\* one request at a time, with external systems that never fail but may
\* leave a request unanswered: only the catalog is sure to answer
UnansweredSpec ==
  /\ SeqNoFaultSpec
  /\ \A p \in Procs : WF_vars(CatalogStep(p) /\ SeqNoFaultNext)

\* the session of the proxy client as time passes
TokenNext == getToken \/ Tick

TokenSpec == Init /\ [][TokenNext]_vars

\* the same, with a control plane that answers every login
TokenNoFaultSpec == InitWith({}) /\ [][TokenNext]_vars

TypeOK ==
  /\ \A k \in RowIds : containers[k].status \in {"running", "stopped", "deleted"}
  /\ \A q \in PortPool : ports[q].container_id \in {NULL} \cup RowIds
  /\ dir \subseteq Identifiers
  /\ sites \subseteq Domains
  /\ dns \subseteq Domains

\* ---- claims ----
CreateEnds(p) == req[p].pc \in CreatePcs /\ req'[p].pc = "idle"

LiveRows == {k \in RowIds : containers[k].status # "deleted"}

\* the runtime has something under the identifier: a container or a working directory
Deployed(i) == rt[i] # "none" \/ i \in dir

\* C1: createContainer calls in progress at the same time for distinct
\* identifiers never hold the same port (so that callers in excess of the
\* free ports can only fail with 'No available ports').
C1_ConcurrentCallsGetDistinctPorts ==
  \A p, q \in Procs :
    (p # q /\ req[p].port # NULL /\ req[q].port # NULL /\ req[p].ident # req[q].ident)
      => req[p].port # req[q].port

\* C2: a createContainer call that succeeds was given a port and a subdomain
\* that no non-deleted instance had when the call began; a call that fails,
\* at whichever step, leaves the port pool, the instance rows, the runtime
\* deployments and the proxy sites exactly as they were when it began.
C2_CreateSucceedsOrChangesNothing ==
  [][\A p \in Procs :
       CreateEnds(p) =>
         IF last'.res = "ok"
           THEN \A k \in 1..Len(pre.containers) :
                  pre.containers[k].status # "deleted" =>
                    /\ pre.containers[k].port # req[p].port
                    /\ pre.containers[k].subdomain # req[p].ident
           ELSE Snapshot' = pre]_vars

\* C3: when createSite threw, createContainer returns the proxy error with
\* the call's runtime deployment removed, the call's port available and no
\* (non-deleted) instance row for the identifier.
C3_ProxyFailureIsCompensated ==
  [][\A p \in Procs :
       (req[p].pc = "c_rollback" /\ req'[p].pc = "idle") =>
         /\ last'.res = "proxy"
         /\ rt'[req[p].ident] = "none"
         /\ req[p].ident \notin dir'
         /\ ports'[req[p].port].is_available
         /\ \A k \in LiveRows' :
              containers'[k].container_identifier # req[p].ident]_vars

\* C4: when no operation is in progress, a port is flagged unavailable
\* exactly when a non-deleted instance has it.
C4_PortFlagMatchesInstances ==
  Quiescent =>
    \A q \in PortPool :
      ~ports[q].is_available <=> \E k \in LiveRows : containers[k].port = q

\* C5: after an instance was deleted its identifier and its port can be used
\* again: the instance row of a createContainer call whose runtime and proxy
\* steps succeeded is persisted when only deleted instances have the call's
\* identifier or port.
C5_DeletedInstanceFreesIdentifierAndPort ==
  [][\A p \in Procs :
       (/\ req[p].pc = "c_insert"
        /\ req'[p] # req[p]
        /\ \A k \in LiveRows :
             /\ containers[k].container_identifier # req[p].ident
             /\ containers[k].port # req[p].port)
       => req'[p].pc = "c_mark"]_vars

\* C6: an id-keyed operation whose id is absent from the catalog or belongs
\* to a deleted instance fails at its lookup: it never goes on to the
\* runtime driver, the proxy client or a catalog write.
C6_DeletedOrAbsentIdIsNotFound ==
  [][\A p \in Procs :
       (req[p].pc = "idle" /\ req'[p].pc # "idle" /\ req'[p].op \in IdOps)
         => req'[p].id \in LiveRows]_vars

\* C7: no two non-deleted instances share an identifier, a subdomain or a
\* port, and the port getAvailablePort hands to a call is not the port of a
\* non-deleted instance, nor is the call's subdomain that of one.
C7_LiveInstancesAreUniqueAndNeverShared ==
  [][/\ \A j, k \in LiveRows' :
          j # k => /\ containers'[j].container_identifier # containers'[k].container_identifier
                   /\ containers'[j].subdomain # containers'[k].subdomain
                   /\ containers'[j].port # containers'[k].port
     /\ \A p \in Procs :
          (req'[p] # req[p] /\ req'[p].pc \in {"c_port", "c_docker"}) =>
            \A k \in LiveRows :
              /\ containers[k].port # req'[p].port
              /\ containers[k].subdomain # req'[p].ident]_vars

\* C8: when no operation is in progress, every running or stopped instance
\* has a runtime deployment, every unavailable port belongs to an instance
\* that has one, and every proxy site has one behind it.
C8_ThreeSystemsAgree ==
  Quiescent =>
    /\ \A k \in LiveRows : Deployed(containers[k].container_identifier)
    /\ \A q \in PortPool :
         ~ports[q].is_available =>
           \E k \in RowIds : containers[k].port = q
                             /\ Deployed(containers[k].container_identifier)
    /\ \A d \in sites : \E i \in Identifiers : Domain(i) = d /\ Deployed(i)

\* C9: a deleteContainer on a non-deleted instance whose proxy step deleted
\* nothing (site not found, or deleteSite threw) returns with the instance
\* 'deleted' and its port available with no owner.
C9_DeleteToleratesProxyFailure ==
  [][\A p \in Procs :
       (/\ req[p].pc = "d_mark"
        /\ req'[p].pc = "idle"
        /\ req[p].id \in LiveRows
        /\ req[p].siteRes \in {"not_found", "threw"})
       => /\ last'.res = "ok"
          /\ containers'[req[p].id].status = "deleted"
          /\ ports'[containers'[req[p].id].port] =
               [is_available |-> TRUE, container_id |-> NULL]]_vars

\* C10: a createContainer call for a valid name and a known service whose
\* identifier belongs to a non-deleted instance ends with 'already exists'
\* at once: no port is selected and the port pool, the catalog, the runtime
\* and the proxy are unchanged.
C10_ExistingIdentifierIsRejectedFirst ==
  [][\A p \in Procs : \A n \in NameInputs, s \in ServiceInputs :
       (/\ createContainer(p, n, s, NoResources)
        /\ ValidInstanceName(n)
        /\ s \in services
        /\ \E k \in RowIds : /\ containers[k].container_identifier = containerIdentifier(n, s)
                             /\ containers[k].status \in {"running", "stopped"})
       => /\ last'.op = "create"
          /\ last'.res = "exists"
          /\ req'[p] = NoRequest
          /\ UNCHANGED globals]_vars

\* C10 witness: after a first successful create on the pool, a repeated
\* call ended 'already exists' and 14001 is the only available port
C10_Witness ==
  /\ last.op = "create"
  /\ last.res = "exists"
  /\ Len(containers) = 1
  /\ containers[1].port = BasePort
  /\ availablePorts = PortPool \ {BasePort}
  /\ Quiescent

\* a name that is empty or has a character other than a letter, a digit, a dash
BadName(n) == n = <<>> \/ \E k \in 1..Len(n) : n[k] \notin Letters \cup Digits \cup {"-"}

\* C11: createContainer given a name that is empty or has a character other
\* than letters, digits and dash, or given a service that is not in the
\* services table, fails at once, and a call that finds no port of the pool
\* available fails at getAvailablePort; in each case the call is over and
\* the catalog, the runtime and the proxy are as they were.
C11_EarlyFailuresTouchNothing ==
  [][\A p \in Procs :
       /\ \A n \in NameInputs, s \in ServiceInputs \cup services, r \in ResourceInputs :
            (createContainer(p, n, s, r) /\ (BadName(n) \/ s \notin {n8n, gowa}))
              => /\ last'.op = "create"
                 /\ last'.res = IF BadName(n) THEN "invalid" ELSE "service_not_found"
                 /\ req'[p] = NoRequest
                 /\ UNCHANGED globals
       /\ (/\ req[p].pc = "c_port"
           /\ req'[p] # req[p]
           /\ \A q \in PortPool : ~ports[q].is_available)
          => /\ last'.op = "create"
             /\ last'.res = "no_ports"
             /\ req'[p] = NoRequest
             /\ UNCHANGED globals]_vars

\* C11 witness: with both ports of the pool held by running instances a
\* third call ended 'No available ports'
C11_Witness ==
  /\ last.op = "create"
  /\ last.res = "no_ports"
  /\ Len(containers) = NumPorts
  /\ \A k \in RowIds : containers[k].status = "running"
  /\ \A q \in PortPool : ~ports[q].is_available
  /\ rt = [i \in Identifiers |->
             IF \E k \in RowIds : containers[k].container_identifier = i
               THEN "running" ELSE "none"]
  /\ Quiescent

\* C12: a createSite step for a domain that already has its DNS record (an
\* earlier addDomain made it) goes on without error: addDomain answers
\* 'exists' and the DNS records are as they were; a deleteSite step for a
\* domain whose site is gone (an earlier deleteSite removed it) answers
\* 'not_found' without error and the sites are as they were.
C12_RepeatedAddDomainAndDeleteSite ==
  [][\A p \in Procs :
       /\ (/\ req[p].pc = "c_site"
           /\ req'[p] # req[p]
           /\ Domain(req[p].ident) \in dns)
          => /\ \A o \in addDomain(dns, Domain(req[p].ident)) :
                  o.ok /\ o.status = "exists" /\ o.dns = dns
             /\ dns' = dns
             /\ req'[p].pc = "c_insert"
       /\ (/\ req[p].pc = "d_site"
           /\ req'[p] # req[p]
           /\ Domain(req[p].ident) \notin sites)
          => /\ \A o \in deleteSite(sites, Domain(req[p].ident)) :
                  o.status = "not_found" /\ o.sites = sites
             /\ sites' = sites
             /\ req'[p].siteRes = "not_found"
             /\ req'[p].pc = "d_free"]_vars

\* C12 witness: a second deleteContainer of the same instance ended with its
\* deleteSite answering 'not_found'; the domain's DNS record is still there,
\* so that a createSite for it finds the record
C12_Witness ==
  /\ last.op = "delete"
  /\ last.res = "ok"
  /\ last.siteRes = "not_found"
  /\ Len(containers) = 1
  /\ containers[1].status = "deleted"
  /\ Domain(containers[1].container_identifier) \in dns \ sites
  /\ Quiescent

\* C13: every createContainer call eventually completes, also when the
\* runtime or the proxy control plane leaves a request unanswered.
C13_CreateEventuallyCompletes ==
  \A p \in Procs : (req[p].op = "create") ~> (req[p].pc = "idle")

\* C14: getToken returns the cached token, calling no login, when a token is
\* cached and at least five minutes remain until its expiry (five minutes
\* exactly included), and calls login otherwise.
C14_TokenIsReusedUntilFiveMinutesRemain ==
  [][getToken =>
       IF /\ fastpanel.token # NULL
          /\ fastpanel.tokenExpire # NULL
          /\ fastpanel.tokenExpire - now >= FiveMinutes
         THEN last'.res = "cached" /\ fastpanel' = fastpanel
         ELSE last'.res \in {"login", "login_failed"}]_vars

\* C15: when createSite returned the created site with ssl = null, no
\* compensation is run and createContainer succeeds: at its return the
\* instance row is there with status 'running' and the port is unavailable.
C15_CertificateFailureIsNotFatal ==
  [][\A p \in Procs :
       /\ (req[p].pc = "c_site" /\ req'[p].siteRes = "created_no_ssl")
            => req'[p].pc = "c_insert"
       /\ (CreateEnds(p) /\ req[p].siteRes = "created_no_ssl")
            => /\ last'.res = "ok"
               /\ req[p].id \in RowIds'
               /\ containers'[req[p].id].container_identifier = req[p].ident
               /\ containers'[req[p].id].status = "running"
               /\ ~ports'[req[p].port].is_available]_vars

\* C16: the HTTP layer answers 400 when instanceName or service is missing,
\* 404 when an id-keyed operation did not find its instance, and 500 only
\* for other failures.
C16_HttpStatusOfFailures ==
  /\ last.res = "missing" => httpStatus(last.op, last.res) = 400
  /\ (last.op \in IdOps /\ last.res = "not_found") => httpStatus(last.op, last.res) = 404
  /\ httpStatus(last.op, last.res) = 500 => last.res \notin {"ok", "missing", "not_found"}

\* C17: the instance row a createContainer(instanceName, serviceName,
\* resources) call records has subdomain and identifier instanceName + '-' +
\* serviceName, status 'running', and as cpu and memory limits the service's
\* defaults, each replaced by the caller's value when the caller gave one.
C17_RecordedInstanceFields ==
  [][\A p \in Procs :
       (req[p].pc = "c_insert" /\ req'[p].pc = "c_mark") =>
         LET row == containers'[Len(containers')]
             given == req[p].resources
         IN  /\ Len(containers') = Len(containers) + 1
             /\ req'[p].id = Len(containers')
             /\ row.container_identifier = req[p].name \o <<"-">> \o req[p].svc
             /\ row.subdomain = req[p].name \o <<"-">> \o req[p].svc
             /\ row.status = "running"
             /\ row.cpu_limit =
                  IF given.cpu # <<>> THEN given.cpu
                  ELSE IF req[p].svc = n8n THEN <<"2">> ELSE <<"1">>
             /\ row.memory_limit =
                  IF given.memory # <<>> THEN given.memory
                  ELSE IF req[p].svc = n8n THEN <<"1", "0", "2", "4", "M">>
                                           ELSE <<"5", "1", "2", "M">>]_vars

\* C17 witness: a call for 'a' on gowa that gave only a cpu limit succeeded:
\* port 14000, subdomain a-gowa, running, cpu as given, memory the default
C17_Witness ==
  /\ last.op = "create"
  /\ last.res = "ok"
  /\ Len(containers) = 1
  /\ containers[1] =
       [container_identifier |-> <<"a", "-", "g", "o", "w", "a">>,
        instance_name |-> <<"a">>, service_name |-> gowa,
        subdomain |-> <<"a", "-", "g", "o", "w", "a">>, port |-> BasePort,
        status |-> "running", cpu_limit |-> <<"4">>,
        memory_limit |-> <<"5", "1", "2", "M">>, created_at |-> 1]
  /\ ~ports[BasePort].is_available
  /\ Quiescent

\* C18: every result of listContainers has no deleted instance, has exactly
\* the non-deleted instances that match each filter given, each once, and
\* runs from newest to oldest creation time.
C18_ListIsFilteredAndNewestFirst ==
  \A f \in FilterInputs :
    /\ listContainers(f) # {}
    /\ \A L \in listContainers(f) :
         /\ \A i \in 1..Len(L) : containers[L[i]].status \in {"running", "stopped"}
         /\ {L[i] : i \in 1..Len(L)} =
              {k \in RowIds :
                 /\ containers[k].status \in {"running", "stopped"}
                 /\ f.instanceName = <<>> \/ containers[k].instance_name = f.instanceName
                 /\ f.service = <<>> \/ containers[k].service_name = f.service
                 /\ f.status = "" \/ containers[k].status = f.status}
         /\ \A i, j \in 1..Len(L) : i # j => L[i] # L[j]
         /\ \A i \in 1..(Len(L) - 1) :
              containers[L[i]].created_at >= containers[L[i + 1]].created_at

\* C18 witness: a deleted instance and, created later, a running one named
\* 'a': the list for instanceName 'a' is the running instance alone
C18_Witness ==
  /\ Len(containers) = 2
  /\ containers[1].status = "deleted"
  /\ containers[2].status = "running"
  /\ containers[2].instance_name = <<"a">>
  /\ containers[2].created_at > containers[1].created_at
  /\ listContainers([instanceName |-> <<"a">>, service |-> <<>>, status |-> ""]) = {<<2>>}
  /\ Quiescent

\* C19: the runtime driver's getContainerStatus never raises: for an
\* identifier with no container it answers 'not_found' with running false,
\* and an answer other than 'not_found' is the container's status, running
\* flag, startedAt and finishedAt.
C19_RuntimeStatusNeverRaises ==
  [][\A p \in Procs :
       (req[p].pc = "o_docker" /\ req[p].op = "status" /\ req'[p] # req[p]) =>
         LET s == last'.dockerStatus
         IN  /\ last'.op = "status"
             /\ last'.res = "ok"
             /\ ~s.raised
             /\ s.status \in {"not_found", "running", "stopped"}
             /\ rt[req[p].ident] = "none" => s.status = "not_found"
             /\ s.status = "not_found" => ~s.running
             /\ s.status # "not_found" =>
                  /\ s.status = rt[req[p].ident]
                  /\ s.running <=> rt[req[p].ident] = "running"
                  /\ s.startedAt = "StartedAt"
                  /\ s.finishedAt = "FinishedAt"]_vars

\* C19 witness: a getContainerStatus call on an instance whose container is
\* gone ended without error, its dockerStatus 'not_found'
C19_Witness ==
  /\ last.op = "status"
  /\ last.res = "ok"
  /\ last.dockerStatus.status = "not_found"
  /\ ~last.dockerStatus.running
  /\ Len(containers) = 1
  /\ rt[containers[1].container_identifier] = "none"

\* C20: no instance row has status 'running' while its port is flagged
\* available.
C20_RunningInstanceHoldsItsPort ==
  \A k \in RowIds :
    containers[k].status = "running" => ~ports[containers[k].port].is_available

\* C21: a successful port allocation hands out the lowest-numbered port that
\* is available at that moment and marks it unavailable in the same step,
\* before the runtime provisioning starts.
C21_AllocationMarksThePort ==
  [][\A p \in Procs :
       (req[p].pc = "c_port" /\ req'[p].pc = "c_docker") =>
         /\ ports[req'[p].port].is_available
         /\ \A q \in PortPool : ports[q].is_available => req'[p].port <= q
         /\ ~ports'[req'[p].port].is_available]_vars

\* C22: an instance row is inserted only by a createContainer call whose
\* runtime provisioning and proxy site creation have both succeeded; a call
\* whose runtime or proxy step is pending or has failed has inserted no row,
\* and ends without one.
C22_RowOnlyAfterRuntimeAndProxy ==
  [][/\ Len(containers') # Len(containers) =>
          \E p \in Procs :
            /\ req[p].pc = "c_insert"
            /\ req[p].containerInfo = "set"
            /\ req[p].siteRes \in {"created", "created_no_ssl"}
            /\ Len(containers') = Len(containers) + 1
            /\ \A k \in RowIds : containers'[k] = containers[k]
            /\ containers'[Len(containers')].container_identifier = req[p].ident
            /\ req'[p].id = Len(containers')
     /\ \A p \in Procs :
          req'[p].pc \in {"c_port", "c_docker", "c_site", "c_rollback"} => req'[p].id = NULL
     /\ \A p \in Procs :
          (CreateEnds(p) /\ last'.res \in {"runtime", "proxy"}) =>
            req[p].id = NULL /\ containers' = containers]_vars

\* C22 witness: one call has inserted its row after both steps succeeded
\* while another call, whose proxy step failed, is about to roll back and
\* has no row
C22_Witness ==
  \E p, q \in Procs :
    /\ req[p].pc = "c_mark"
    /\ req[p].containerInfo = "set"
    /\ req[p].siteRes = "created"
    /\ containers[req[p].id].container_identifier = req[p].ident
    /\ req[q].pc = "c_rollback"
    /\ req[q].siteRes = "threw"
    /\ req[q].id = NULL
    /\ \A k \in RowIds : containers[k].container_identifier # req[q].ident

\* C23: when the INSERT of createContainer is rejected after the runtime and
\* proxy steps succeeded, the call ends with the database error at once: no
\* retry and no compensation, the runtime deployments, the proxy sites and
\* the port pool are as they were and no row was written.
C23_InsertFailureIsSurfacedUncompensated ==
  [][\A p \in Procs :
       (req[p].pc = "c_insert" /\ req'[p] # req[p] /\ containers' = containers) =>
         /\ req[p].containerInfo = "set"
         /\ req[p].siteRes \in {"created", "created_no_ssl"}
         /\ req'[p] = NoRequest
         /\ last'.op = "create"
         /\ last'.res = "db"
         /\ UNCHANGED <<ports, rt, dir, sites, dns>>]_vars

\* C23 witness: a call ended with the database error and left a running
\* container, its working directory and its proxy site with no non-deleted
\* instance row for them
C23_Witness ==
  /\ last.op = "create"
  /\ last.res = "db"
  /\ Quiescent
  /\ \E i \in Identifiers :
       /\ rt[i] = "running"
       /\ i \in dir
       /\ Domain(i) \in sites
       /\ \A k \in LiveRows : containers[k].container_identifier # i

\* C24: when the runtime provisioning of a createContainer call fails, the
\* call ends with the runtime driver's error, the port chosen for the call
\* is available, the proxy was not called and no row was written.
C24_RuntimeFailureReleasesThePort ==
  [][\A p \in Procs :
       (req[p].pc = "c_docker" /\ req'[p].pc = "idle") =>
         /\ last'.res = "runtime"
         /\ ports'[req[p].port].is_available
         /\ sites' = sites
         /\ dns' = dns
         /\ containers' = containers]_vars

\* C25: when a step of the runtime driver's createContainer fails, the call
\* ends with that step's error, with the container and the working
\* directory of the identifier removed unless the removal itself fails; when
\* createSite failed, the call ends with the proxy error whether or not the
\* compensating teardown failed.
C25_CleanupNeverMasksTheError ==
  [][\A p \in Procs :
       /\ (req[p].pc = "c_docker" /\ req'[p].pc = "idle")
            => /\ last'.res = "runtime"
               /\ "cleanup" \notin faults =>
                    rt'[req[p].ident] = "none" /\ req[p].ident \notin dir'
       /\ (req[p].pc = "c_rollback" /\ req'[p] # req[p])
            => /\ req'[p] = NoRequest
               /\ last'.res = "proxy"
               /\ last'.siteRes = "threw"
               /\ "cleanup" \notin faults =>
                    rt'[req[p].ident] = "none" /\ req[p].ident \notin dir']_vars

\* C25 witness: the first call ended with the runtime driver's error
\* although the cleanup failed and left the container in place
C25_Witness ==
  /\ last.op = "create"
  /\ last.res = "runtime"
  /\ calls = 1
  /\ "cleanup" \in faults
  /\ \E i \in Identifiers : rt[i] = "running"
  /\ Quiescent

\* C26: a redeploy that fails with the deployment torn down ends the call
\* with the runtime error at once: no second attempt, and the catalog is as
\* it was (the call records no 'running').
C26_FailedRedeployIsSurfaced ==
  [][\A p \in Procs :
       (/\ req[p].pc = "o_docker"
        /\ req[p].op = "redeploy"
        /\ req'[p] # req[p]
        /\ rt'[req[p].ident] = "none")
       => /\ req'[p] = NoRequest
          /\ last'.op = "redeploy"
          /\ last'.res = "runtime"
          /\ containers' = containers]_vars

\* C26 witness: the redeploy of a running instance failed between down and
\* up: the container is gone, the working directory is there, the call
\* ended with the runtime error
C26_Witness ==
  /\ last.op = "redeploy"
  /\ last.res = "runtime"
  /\ Len(containers) = 1
  /\ rt[containers[1].container_identifier] = "none"
  /\ containers[1].container_identifier \in dir
  /\ ~ports[containers[1].port].is_available
  /\ Quiescent

\* C27: no instance has status 'deleted' while a port is flagged
\* unavailable with that instance as its owner (deleteContainer releases
\* the port before it marks the instance deleted).
C27_DeletedInstanceOwnsNoPort ==
  \A k \in RowIds :
    containers[k].status = "deleted" =>
      \A q \in PortPool : ports[q].is_available \/ ports[q].container_id # k

\* the requests of createSite, in their order
SiteRequests == <<"addDomain", "createSite", "createSSL">>

\* C28: createSite sends add-domain, create-site, create-certificate in
\* this order: a site is created only for a registered domain, a
\* certificate is requested only for a created site, and when add-domain or
\* create-site fails createSite fails having sent nothing after it.
C28_CreateSiteRequestOrder ==
  [][\A p \in Procs :
       (req[p].pc = "c_site" /\ req'[p] # req[p]) =>
         LET d == Domain(req[p].ident)
         IN  /\ \A o \in createSiteOutcomes(d) :
                  /\ Len(o.issued) <= 3
                  /\ \A i \in 1..Len(o.issued) : o.issued[i] = SiteRequests[i]
                  /\ d \in o.sites \ sites => d \in o.dns /\ Len(o.issued) >= 2
                  /\ Len(o.issued) = 3 <=> o.ssl \in {"creating", "null"}
                  /\ Len(o.issued) = 3 => d \in o.sites
                  /\ o.ok <=> Len(o.issued) = 3
                  /\ ~o.ok => o.sites = sites
             /\ d \in sites' \ sites => d \in dns'
             /\ req'[p].siteRes = "threw" => sites' = sites /\ req'[p].pc = "c_rollback"
             /\ req'[p].siteRes # "threw" => d \in sites' /\ d \in dns']_vars

\* C28 witness: add-domain succeeded and create-site failed: the domain is
\* registered, there is no site, the call is about to roll back
C28_Witness ==
  \E p \in Procs :
    /\ req[p].pc = "c_rollback"
    /\ req[p].siteRes = "threw"
    /\ Domain(req[p].ident) \in dns
    /\ sites = {}

\* C29: of the createContainer calls for one identifier at most one
\* succeeds, and the cleanup or compensation of a call that fails leaves
\* the container and the working directory of a running instance with that
\* identifier in place.
C29_LoserSparesTheWinner ==
  [][\A p \in Procs :
       /\ (CreateEnds(p) /\ last'.res = "ok")
            => \A k \in LiveRows' :
                 containers'[k].container_identifier = req[p].ident => k = req[p].id
       /\ (/\ req[p].pc \in {"c_docker", "c_rollback"}
           /\ req'[p].pc = "idle"
           /\ \E k \in RowIds : /\ containers[k].container_identifier = req[p].ident
                                 /\ containers[k].status = "running")
          => /\ rt'[req[p].ident] = rt[req[p].ident]
             /\ req[p].ident \in dir' <=> req[p].ident \in dir]_vars

\* C30: 'deleted' is terminal: once an instance row has status 'deleted',
\* no step of any operation changes the status of that row.
C30_DeletedIsTerminal ==
  [][\A k \in RowIds :
       containers[k].status = "deleted" => containers'[k].status = "deleted"]_vars

\* C31: every valid (instanceName, serviceName) pair whose identifier
\* createContainer finds existing has a live instance made from that very
\* pair: different pairs never give the same identifier.
C31_IdentifierIsInjective ==
  \A n \in RegisteredNameInputs, s \in registeredServices :
    (ValidInstanceName(n) /\ existing(containerIdentifier(n, s)) # {})
    => \E k \in existing(containerIdentifier(n, s)) :
         containers[k].instance_name = n /\ containers[k].service_name = s

\* the operations that write a status after their runtime call
StatusOps == {"stop", "start", "restart", "redeploy"}

\* C32: stop, start, restart and redeploy leave the catalog and the port
\* pool alone in their runtime step, which either fails and ends the call
\* with the runtime error, or succeeds and is followed by one write: the
\* status of the instance becomes 'stopped' for stop and 'running' for the
\* others, and nothing else in the catalog changes.
C32_StatusIsWrittenAfterTheRuntimeCall ==
  [][\A p \in Procs :
       /\ (req[p].pc = "o_docker" /\ req[p].op \in StatusOps /\ req'[p] # req[p])
          => /\ containers' = containers
             /\ ports' = ports
             /\ \/ req'[p] = NoRequest /\ last'.op = req[p].op /\ last'.res = "runtime"
                \/ /\ req'[p] = [req[p] EXCEPT !.pc = "o_write"]
                   /\ rt'[req[p].ident] = IF req[p].op = "stop" THEN "stopped" ELSE "running"
       /\ (req[p].pc = "o_write" /\ req'[p] # req[p])
          => /\ req[p].op \in StatusOps
             /\ req'[p] = NoRequest
             /\ last'.op = req[p].op
             /\ last'.res = "ok"
             /\ containers' =
                  [containers EXCEPT ![req[p].id].status =
                     IF req[p].op = "stop" THEN "stopped" ELSE "running"]
             /\ ports' = ports
             /\ rt' = rt]_vars

\* C32 witness: a stop succeeded and wrote 'stopped'; then a start, restart
\* or redeploy failed in the runtime: the status is still 'stopped' and the
\* port still belongs to the instance
C32_Witness ==
  /\ last.op \in {"start", "restart", "redeploy"}
  /\ last.res = "runtime"
  /\ Len(containers) = 1
  /\ containers[1].status = "stopped"
  /\ ~ports[containers[1].port].is_available
  /\ ports[containers[1].port].container_id = 1
  /\ Quiescent

\* C33: when createContainer has failed at the proxy step and compensated,
\* neither the DNS domain nor a site of its subdomain is registered in the
\* control plane.
C33_ProxyFailureLeavesNoProxyArtifact ==
  [][\A p \in Procs :
       (req[p].pc = "c_rollback" /\ req'[p].pc = "idle")
       => /\ Domain(req[p].ident) \notin dns'
          /\ Domain(req[p].ident) \notin sites']_vars

\* C34: the teardown step of deleteContainer changes neither the catalog
\* (statuses, port flags and owners) nor the proxy. When the working
\* directory is still there after it (its removal failed) the call ends
\* there with the runtime error. When the directory is gone the call goes
\* on to the proxy, whether or not `compose down` removed the container.
C34_FailedTeardownAbortsTheDelete ==
  [][\A p \in Procs :
       (req[p].pc = "d_docker" /\ req'[p] # req[p])
       => /\ containers' = containers
          /\ ports' = ports
          /\ sites' = sites
          /\ dns' = dns
          /\ req[p].ident \in dir'
             => /\ req'[p] = NoRequest
                /\ last'.op = "delete"
                /\ last'.res = "runtime"
          /\ req[p].ident \notin dir'
             => req'[p] = [req[p] EXCEPT !.pc = "d_site"]]_vars

\* C34 witness: the delete of a running instance failed at the removal of
\* its working directory: status, port, directory and site are as before
C34_Witness ==
  /\ last.op = "delete"
  /\ last.res = "runtime"
  /\ Len(containers) = 1
  /\ containers[1].status = "running"
  /\ ports[containers[1].port] = [is_available |-> FALSE, container_id |-> 1]
  /\ containers[1].container_identifier \in dir
  /\ Domain(containers[1].subdomain) \in sites
  /\ Quiescent

====
